---- MODULE Spec2Model ----
(***************************************************************************)
(* Policy ingestion and retrieval pipeline of the policy RAG service.      *)
(*                                                                         *)
(* Two request flows interleave at their awaits:                           *)
(*   - an administration flow (PolicyIngestionService.ingest_policy,       *)
(*     update_policy, delete_policy and delete_policy_service), which      *)
(*     owns one database session;                                          *)
(*   - a retrieval flow (RAGRetrievalService.retrieve_relevant_chunks),    *)
(*     which reads committed rows.                                         *)
(*                                                                         *)
(* The metadata store is the pair (policies, chunks) of committed rows;    *)
(* txPolicies is what the administration session sees (committed rows      *)
(* plus its pending writes).  The vector store is the set vectors.  Both   *)
(* stores are external and outlive the process, so the initial state       *)
(* draws their content from a bounded family that includes diverged        *)
(* content (Documents without vectors, vectors without Document).          *)
(*                                                                         *)
(* The injected collaborators (text extraction, embedding provider,        *)
(* Qdrant client, database) are modelled by their outcomes: each call      *)
(* either fails or returns.  Scores are fixed point, in hundredths.        *)
(*                                                                         *)
(* ingest_policy binds the name chunk_text as a loop variable in step 6c   *)
(* (for i, (chunk_text, chunk_metadata) in enumerate(chunks)), which makes *)
(* chunk_text a local variable of the whole function: the call             *)
(* chunk_text(text=..., ...) of step 4 reads that local before it is       *)
(* bound and raises UnboundLocalError.  Steps 5 and 6 are never reached.   *)
(***************************************************************************)
EXTENDS Integers, Sequences, FiniteSets, TLC

VARIABLES
    policies,     \* committed Policy rows: id -> row
    chunks,       \* committed PolicyChunk rows
    txPolicies,   \* Policy rows as seen by the administration session
    vectors,      \* points of the Qdrant collection
    pc,           \* position of the administration flow
    op,           \* arguments and locals of the current/last administration call
    res,          \* outcome of the last administration call
    pre,          \* committed rows and vectors when that call started
    rpc,          \* position of the retrieval flow
    rq,           \* arguments and locals of the current/last retrieval call
    rres,         \* outcome of the last retrieval call
    cpc,          \* position of the chat flow (answer_question / answer_question_stream)
    chat,         \* arguments and locals of the current/last chat call
    cres,         \* what the last chat call returned or raised
    yielded,      \* fragments yielded by the last answer_question_stream call
    auditLog,     \* committed QueryLog rows
    conf,         \* input and result of a calculate_confidence call
    eb,           \* arguments, locals and outcome of a generate_embeddings_batch call
    ct,           \* arguments, locals and result of a chunk_text call
    gs            \* the module-level singletons and the calls of their getters

adminVars == <<policies, chunks, txPolicies, vectors, pc, op, res, pre>>

retrievalVars == <<rpc, rq, rres>>

chatVars == <<cpc, chat, cres, yielded, auditLog>>

pureVars == <<conf, eb, ct>>

globalVars == <<gs>>

vars == <<adminVars, retrievalVars, chatVars, pureVars, globalVars>>

----------------------------------------------------------------------------
(* Bounds *)

MaxPolicies == 2          \* Policy ids are 1..MaxPolicies
MaxChunks == 2            \* chunks of a stored Document: 1..MaxChunks
MaxDate == 2              \* effective_from dates are 1..MaxDate
MaxTopK == 2              \* top_k is 1..MaxTopK
MaxConfLen == 2           \* chunk sets given to calculate_confidence: up to MaxConfLen scores
MaxFragments == 2         \* text fragments the provider streams: up to MaxFragments
MaxLogs == 1              \* QueryLog rows: up to MaxLogs
MaxTexts == 3             \* texts given to generate_embeddings_batch: up to MaxTexts
MaxBatchSize == 2         \* batch_size: 1..MaxBatchSize
MaxSegments == 3          \* a text given to chunk_text is made of up to MaxSegments segments
MaxCallers == 2           \* tasks that call the singleton getters: 1..MaxCallers

(* Program constants *)

MinChunkChars == 100      \* chunk_text drops a window shorter than this
HighMaxScore == 85        \* calculate_confidence: max_score > 0.85
HighAvgScore == 75        \* calculate_confidence: avg_score > 0.75
MediumMaxScore == 70      \* calculate_confidence: max_score > 0.70
MediumAvgScore == 65      \* calculate_confidence: avg_score > 0.65

PolicyIds == 1..MaxPolicies
Names == {"Fire Safety"}
Versions == {"v1", "v2"}
Statuses == {"active", "inactive", "archived"}
Dates == 1..MaxDate
NoDate == 0               \* effective_to = None

\* extracted full_text, as a sequence of characters: empty, whitespace only,
\* too short for one chunk, long enough for one chunk
LongText == [i \in 1..MinChunkChars |-> "x"]
Texts == {<<>>, <<" ", " ">>, <<" ", "x", " ">>, LongText}

Questions == {0, 1}       \* question embeddings
Thresholds == {70, 90}    \* score_threshold values

----------------------------------------------------------------------------
(* Pure helpers *)

RECURSIVE Strip(_)
\* str.strip(): drop leading and trailing whitespace
Strip(s) ==
    IF s = <<>> THEN s
    ELSE IF Head(s) = " " THEN Strip(Tail(s))
    ELSE IF s[Len(s)] = " " THEN Strip(SubSeq(s, 1, Len(s) - 1))
    ELSE s

\* "if not full_text.strip():" of step 1
EmptyTextNoStrip(full_text) == full_text = <<>>
EmptyText(full_text) == Strip(full_text) = <<>>

\* client.delete(filter policy_id == policy_id)
ClientDelete(vs, policy_id) == {v \in vs : v.policy_id # policy_id}

\* update_policy: old_policy.status = "inactive"; old_policy.effective_to = effective_from
Deactivate(row, effective_from) ==
    [row EXCEPT !.status = "inactive", !.effective_to = effective_from]

\* delete_policy / delete_policy_service: policy.status = "archived"
ArchiveAndClose(row) ==
    [row EXCEPT !.status = "archived", !.effective_to = row.effective_from]
ArchiveAsActive(row) == [row EXCEPT !.status = "active"]
Archive(row) == [row EXCEPT !.status = "archived"]

\* session.rollback(): the session sees the committed rows again
Rollback(committed, pending) == committed

\* select(Policy.id).where(Policy.status == "active")
ActivePolicyIds(ps) == {i \in DOMAIN ps : ps[i].status = "active"}

----------------------------------------------------------------------------
(* Initial content of the two stores *)

\* the embedding stored for chunk i of a Document
Embedding(i) == i % 3

\* the vector key (uuid) of chunk i of Document id
Key(id, i) == (id - 1) * MaxChunks + i

\* number of chunks of stored Document id
StoredChunkCount(id) == ((id - 1) % MaxChunks) + 1

\* Documents 1 and 2 carry the same (name, version)
StoredVersion(id) == IF id <= 2 THEN "v1" ELSE "v2"

StoredRow(id, status) ==
    [name |-> "Fire Safety", version |-> StoredVersion(id), status |-> status,
     effective_from |-> 1, effective_to |-> NoDate]

StoredChunks(id) ==
    {[policy_id |-> id, chunk_index |-> i - 1, embedding_id |-> Key(id, i)] :
        i \in 1..StoredChunkCount(id)}

StoredVectors(id) ==
    {[id |-> Key(id, i), policy_id |-> id, chunk_index |-> i - 1, emb |-> Embedding(i)] :
        i \in 1..StoredChunkCount(id)}

\* per id: no Document ("absent") or a Document in some status, with or
\* without its vectors in the vector store; the stored Documents follow the
\* convention of one active Document per (name, version)
StoreContents ==
    {c \in [PolicyIds -> [doc : {"absent"} \cup Statuses, vec : BOOLEAN]] :
        \A i, j \in PolicyIds :
            (/\ c[i].doc = "active" /\ c[j].doc = "active"
             /\ StoredVersion(i) = StoredVersion(j)) => i = j}

PoliciesOf(c) ==
    [id \in {i \in PolicyIds : c[i].doc # "absent"} |-> StoredRow(id, c[id].doc)]

ChunksOf(c) == UNION {StoredChunks(id) : id \in {i \in PolicyIds : c[i].doc # "absent"}}

VectorsOf(c) == UNION {StoredVectors(id) : id \in {i \in PolicyIds : c[i].vec}}

NoOp == [kind |-> "none", name |-> "", version |-> "", eff |-> NoDate,
         text |-> <<>>, target |-> 0]

NoRes == [outcome |-> "none", failedAt |-> "", policy_id |-> 0, chunk_count |-> 0]

Snapshot == [policies |-> policies, chunks |-> chunks, vectors |-> vectors]

AdminInit ==
    /\ \E c \in StoreContents :
          /\ policies = PoliciesOf(c)
          /\ txPolicies = PoliciesOf(c)
          /\ chunks = ChunksOf(c)
          /\ vectors = VectorsOf(c)
          /\ pre = [policies |-> PoliciesOf(c), chunks |-> ChunksOf(c),
                    vectors |-> VectorsOf(c)]
    /\ pc = "idle"
    /\ op = NoOp
    /\ res = NoRes

----------------------------------------------------------------------------
(* The administration flow *)

\* except-branch of ingest_policy / update_policy / delete_policy:
\* log, await self.db.rollback(), raise.  delete_policy_service has no
\* except-branch: its request-scoped session is dropped with the request,
\* which discards the pending writes as well.
Fail(o, step) ==
    /\ txPolicies' = Rollback(policies, txPolicies)
    /\ op' = o
    /\ res' = [outcome |-> "error", failedAt |-> step, policy_id |-> 0, chunk_count |-> 0]
    /\ pc' = "idle"

\* the body of ingest_policy: extract, strip check, clean, detect sections, and
\* the chunk_text call that raises UnboundLocalError; always ends in Fail
IngestBody(o, extractOk) ==
    IF ~extractOk THEN Fail(o, "extract")
    ELSE IF EmptyText(o.text) THEN Fail(o, "empty_text")
    ELSE Fail(o, "chunk_text")

\* a call of ingest_policy(pdf_source, policy_name, version, effective_from);
\* the text is known only when the extraction succeeded
ingest_policy(name, version, eff, text, extractOk) ==
    /\ pc = "idle"
    /\ extractOk \/ text = <<>>
    /\ pre' = Snapshot
    /\ IngestBody([NoOp EXCEPT !.kind = "ingest", !.name = name, !.version = version,
                               !.eff = eff, !.text = text],
                  extractOk)
    /\ UNCHANGED <<policies, chunks, vectors>>
    /\ UNCHANGED <<retrievalVars, chatVars, pureVars, globalVars>>

\* a call of update_policy(old_policy_id, pdf_source, new_version, effective_from):
\* await db.get, then the status and effective_to assignments
update_policy(old, version, eff, getOk) ==
    /\ pc = "idle"
    /\ pre' = Snapshot
    /\ LET o == [NoOp EXCEPT !.kind = "update", !.target = old, !.version = version,
                             !.eff = eff]
       IN IF ~getOk THEN Fail(o, "get")
          ELSE IF old \notin DOMAIN txPolicies THEN Fail(o, "not_found")
          ELSE /\ txPolicies' = [txPolicies EXCEPT ![old] = Deactivate(@, eff)]
               /\ op' = [o EXCEPT !.name = txPolicies[old].name]
               /\ pc' = "u_delete"
               /\ res' = NoRes
    /\ UNCHANGED <<policies, chunks, vectors>>
    /\ UNCHANGED <<retrievalVars, chatVars, pureVars, globalVars>>

\* await self.qdrant.delete_policy(old_policy_id), then the call of
\* ingest_policy(policy_name=old_policy.name, version=new_version, ...), whose
\* exception runs the rollback of ingest_policy and then that of update_policy
UpdateDeleteVectors(ok, text, extractOk) ==
    /\ pc = "u_delete"
    /\ extractOk \/ text = <<>>
    /\ IF ~ok
       THEN /\ Fail(op, "qdrant_delete")
            /\ UNCHANGED vectors
       ELSE /\ vectors' = ClientDelete(vectors, op.target)
            /\ IngestBody([op EXCEPT !.text = text], extractOk)
    /\ UNCHANGED <<policies, chunks, pre>>
    /\ UNCHANGED <<retrievalVars, chatVars, pureVars, globalVars>>

\* a call of PolicyIngestionService.delete_policy(policy_id) (svc = FALSE) or of
\* delete_policy_service(policy_id, ...) (svc = TRUE): await db.get, status = "archived"
delete_policy(id, svc, getOk) ==
    /\ pc = "idle"
    /\ pre' = Snapshot
    /\ LET o == [NoOp EXCEPT !.kind = IF svc THEN "delete_service" ELSE "delete",
                             !.target = id]
       IN IF ~getOk THEN Fail(o, "get")
          ELSE IF id \notin DOMAIN txPolicies THEN Fail(o, "not_found")
          ELSE /\ txPolicies' = [txPolicies EXCEPT ![id] = Archive(@)]
               /\ op' = o
               /\ pc' = "d_delete"
               /\ res' = NoRes
    /\ UNCHANGED <<policies, chunks, vectors>>
    /\ UNCHANGED <<retrievalVars, chatVars, pureVars, globalVars>>

\* await qdrant.delete_policy(policy_id)
DeleteVectors(ok) ==
    /\ pc = "d_delete"
    /\ IF ~ok
       THEN /\ Fail(op, "qdrant_delete")
            /\ UNCHANGED vectors
       ELSE /\ vectors' = ClientDelete(vectors, op.target)
            /\ pc' = "d_commit"
            /\ UNCHANGED <<op, res, txPolicies>>
    /\ UNCHANGED <<policies, chunks, pre>>
    /\ UNCHANGED <<retrievalVars, chatVars, pureVars, globalVars>>

\* await db.commit(); delete_policy returns here
DeleteCommit(ok) ==
    /\ pc = "d_commit"
    /\ IF ~ok
       THEN /\ Fail(op, "commit")
            /\ UNCHANGED policies
       ELSE /\ policies' = txPolicies
            /\ UNCHANGED <<op, txPolicies>>
            /\ IF op.kind = "delete_service"
               THEN pc' = "d_refresh" /\ UNCHANGED res
               ELSE /\ pc' = "idle"
                    /\ res' = [outcome |-> "ok", failedAt |-> "",
                               policy_id |-> op.target, chunk_count |-> 0]
    /\ UNCHANGED <<chunks, vectors, pre>>
    /\ UNCHANGED <<retrievalVars, chatVars, pureVars, globalVars>>

\* delete_policy_service only: await db_session.refresh(policy); return policy
DeleteRefresh(ok) ==
    /\ pc = "d_refresh"
    /\ IF ~ok
       THEN Fail(op, "refresh")
       ELSE /\ res' = [outcome |-> "ok", failedAt |-> "",
                       policy_id |-> op.target, chunk_count |-> 0]
            /\ pc' = "idle"
            /\ UNCHANGED <<op, txPolicies>>
    /\ UNCHANGED <<policies, chunks, vectors, pre>>
    /\ UNCHANGED <<retrievalVars, chatVars, pureVars, globalVars>>

----------------------------------------------------------------------------
(* The retrieval flow: RAGRetrievalService.retrieve_relevant_chunks *)

\* cosine similarity of the question embedding q and a stored embedding e
Score(q, e) == 100 - 30 * (IF q > e THEN q - e ELSE e - q)

\* policy_ids = None
NoPolicyIds == [given |-> FALSE, ids |-> {}]

\* search_similar: "if policy_ids:" builds the MatchAny filter, otherwise no filter
QueryFilter(policy_ids) ==
    IF policy_ids.given /\ policy_ids.ids # {}
    THEN [any |-> TRUE, ids |-> policy_ids.ids]
    ELSE [any |-> FALSE, ids |-> {}]

\* v comes before w in the result of a search: higher score first
Before(q, v, w) ==
    \/ Score(q, v.emb) > Score(q, w.emb)
    \/ Score(q, v.emb) = Score(q, w.emb) /\ v.id <= w.id

RECURSIVE TopHits(_, _, _)
TopHits(q, cand, k) ==
    IF k = 0 \/ cand = {} THEN <<>>
    ELSE LET best == CHOOSE v \in cand : \A w \in cand : Before(q, v, w)
         IN <<best>> \o TopHits(q, cand \ {best}, k - 1)

\* client.search(query_vector, limit, score_threshold, query_filter): the limit
\* nearest points that pass the filter and score at least score_threshold
ClientSearch(vs, q, limit, score_threshold, query_filter) ==
    TopHits(q, {v \in vs : /\ query_filter.any => v.policy_id \in query_filter.ids
                           /\ Score(q, v.emb) >= score_threshold},
            limit)

\* the formatted result list of search_similar
FormatResults(q, results) ==
    [i \in 1..Len(results) |->
        [embedding_id |-> results[i].id, score |-> Score(q, results[i].emb),
         policy_id |-> results[i].policy_id, chunk_index |-> results[i].chunk_index]]

\* QdrantService.search_similar
search_similar_no_threshold(vs, q, top_k, score_threshold, policy_ids) ==
    FormatResults(q, ClientSearch(vs, q, top_k, 0, QueryFilter(policy_ids)))
search_similar(vs, q, top_k, score_threshold, policy_ids) ==
    FormatResults(q, ClientSearch(vs, q, top_k, score_threshold, QueryFilter(policy_ids)))

\* "if not policy_ids:" after the active-id query
NoEligibleNever(policy_ids) == FALSE
NoEligible(policy_ids) == policy_ids.ids = {}

\* the RetrievedChunk built from a hit and its Policy row
MakeRetrievedChunk(hit, policy_id, policy) ==
    [policy_id |-> policy_id, policy_name |-> policy.name,
     policy_version |-> policy.version, chunk_index |-> hit.chunk_index,
     relevance_score |-> hit.score, embedding_id |-> hit.embedding_id]

NoRq == [q |-> 0, top_k |-> 0, score_threshold |-> 0, active_only |-> FALSE,
         idsRead |-> FALSE, policy_ids |-> NoPolicyIds,
         searchCalls |-> 0, hits |-> <<>>, found |-> <<>>, retrieved |-> <<>>]

NoRRes == [outcome |-> "none", failedAt |-> "", chunks |-> <<>>]

RetrievalInit ==
    /\ rpc = "idle"
    /\ rq = NoRq
    /\ rres = NoRRes

\* except-branch of retrieve_relevant_chunks: log and re-raise
RFail(r, step) ==
    /\ rq' = r
    /\ rres' = [outcome |-> "error", failedAt |-> step, chunks |-> <<>>]
    /\ rpc' = "idle"

\* return of retrieve_relevant_chunks
RReturn(r, cs) ==
    /\ rq' = r
    /\ rres' = [outcome |-> "ok", failedAt |-> "", chunks |-> cs]
    /\ rpc' = "idle"

\* a call of retrieve_relevant_chunks(question, top_k, score_threshold, active_only)
retrieve_relevant_chunks(q, top_k, score_threshold, active_only) ==
    /\ rpc = "idle"
    /\ rq' = [NoRq EXCEPT !.q = q, !.top_k = top_k,
                          !.score_threshold = score_threshold,
                          !.active_only = active_only]
    /\ rres' = NoRRes
    /\ rpc' = "r_embed"
    /\ UNCHANGED <<adminVars, chatVars, pureVars, globalVars>>

\* step 1: await self.gemini.generate_embedding(question)
REmbed(ok) ==
    /\ rpc = "r_embed"
    /\ IF ~ok THEN RFail(rq, "embed")
       ELSE /\ rpc' = IF rq.active_only THEN "r_ids" ELSE "r_search"
            /\ UNCHANGED <<rq, rres>>
    /\ UNCHANGED <<adminVars, chatVars, pureVars, globalVars>>

\* step 2: the active-id query and the short-circuit on an empty list
RActiveIds(ok) ==
    /\ rpc = "r_ids"
    /\ LET r == [rq EXCEPT !.idsRead = TRUE,
                           !.policy_ids = [given |-> TRUE, ids |-> ActivePolicyIds(policies)]]
       IN IF ~ok THEN RFail(rq, "active_ids")
          ELSE IF NoEligible(r.policy_ids) THEN RReturn(r, <<>>)
          ELSE /\ rq' = r
               /\ rpc' = "r_search"
               /\ UNCHANGED rres
    /\ UNCHANGED <<adminVars, chatVars, pureVars, globalVars>>

\* step 3: await self.qdrant.search_similar(...) and the empty-result return
RSearch(ok) ==
    /\ rpc = "r_search"
    /\ LET hits == search_similar(vectors, rq.q, rq.top_k, rq.score_threshold, rq.policy_ids)
           r == [rq EXCEPT !.searchCalls = @ + 1, !.hits = hits]
       IN IF ~ok THEN RFail([rq EXCEPT !.searchCalls = @ + 1], "search")
          ELSE IF hits = <<>> THEN RReturn(r, <<>>)
          ELSE /\ rq' = r
               /\ rpc' = "r_get"
               /\ UNCHANGED rres
    /\ UNCHANGED <<adminVars, chatVars, pureVars, globalVars>>

\* step 4, one iteration: await self.db.get(Policy, policy_id), skip or append;
\* after the last hit the "avg score" log line divides by len(retrieved_chunks)
\* (ZeroDivisionError when every hit was skipped) and the list is returned
RGet(ok) ==
    /\ rpc = "r_get"
    /\ LET hit == rq.hits[Len(rq.found) + 1]
           isFound == hit.policy_id \in DOMAIN policies
           r == [rq EXCEPT !.found = Append(@, isFound),
                           !.retrieved =
                               IF isFound
                               THEN Append(@, MakeRetrievedChunk(hit, hit.policy_id,
                                                                policies[hit.policy_id]))
                               ELSE @]
       IN IF ~ok THEN RFail(rq, "get")
          ELSE IF Len(r.found) < Len(r.hits)
          THEN /\ rq' = r
               /\ UNCHANGED <<rpc, rres>>
          ELSE IF Len(r.retrieved) = 0 THEN RFail(r, "avg_score")
          ELSE RReturn(r, r.retrieved)
    /\ UNCHANGED <<adminVars, chatVars, pureVars, globalVars>>

----------------------------------------------------------------------------
(* RAGRetrievalService.calculate_confidence *)

\* relevance scores, in hundredths, around the four thresholds
ConfScores == {0, 50, 65, 66, 68, 70, 71, 72, 75, 76, 85, 86, 90, 100}

\* the chunk sets a call is given: sequences of up to MaxConfLen chunks
ConfInputs ==
    UNION {[1..n -> [relevance_score : ConfScores]] : n \in 0..MaxConfLen}

RECURSIVE SumScores(_)
\* sum(c.relevance_score for c in chunks)
SumScores(cs) ==
    IF cs = <<>> THEN 0 ELSE Head(cs).relevance_score + SumScores(Tail(cs))

RECURSIVE MaxScore(_)
\* max(c.relevance_score for c in chunks), for a non-empty list
MaxScore(cs) ==
    IF Len(cs) = 1 THEN Head(cs).relevance_score
    ELSE LET m == MaxScore(Tail(cs))
         IN IF Head(cs).relevance_score >= m THEN Head(cs).relevance_score ELSE m

\* avg_score > t, with avg_score = sum / len(chunks) and t in hundredths
AvgAbove(cs, t) == SumScores(cs) > t * Len(cs)

\* calculate_confidence(chunks)
calculate_confidence_max_only(cs) ==
    IF cs = <<>> THEN "low"
    ELSE IF MaxScore(cs) > HighMaxScore THEN "high"
    ELSE IF MaxScore(cs) > MediumMaxScore THEN "medium"
    ELSE "low"
calculate_confidence(cs) ==
    IF cs = <<>> THEN "low"
    ELSE IF MaxScore(cs) > HighMaxScore /\ AvgAbove(cs, HighAvgScore) THEN "high"
    ELSE IF MaxScore(cs) > MediumMaxScore /\ AvgAbove(cs, MediumAvgScore) THEN "medium"
    ELSE "low"

NoConf == [called |-> FALSE, chunks |-> <<>>, out |-> ""]

\* a call of calculate_confidence on the chunk set drawn for it
ConfidenceCall ==
    /\ ~conf.called
    /\ conf' = [conf EXCEPT !.called = TRUE, !.out = calculate_confidence(conf.chunks)]
    /\ UNCHANGED <<adminVars, retrievalVars, chatVars, eb, ct, globalVars>>

----------------------------------------------------------------------------
(* The chat flow: RAGChatService.answer_question and answer_question_stream *)

\* the fixed messages, as the code spells them
EscalationMessage ==
    "I cannot find this in our current policies. Please escalate to your manager or on-call coordinator for guidance."
StreamEscalationMessage ==
    "I cannot find this in our current policies. Please escalate to your manager or on-call coordinator for guidance."
ErrorMessage ==
    "I encountered an error processing your question. Please contact your manager or on-call coordinator for assistance."
StreamErrorMessage ==
    "I encountered an error processing your question. Please contact your manager or on-call coordinator for assistance."
\* what generate_chat_response returns, and generate_chat_response_stream
\* yields, when the provider call raises
ProviderErrorMessage ==
    "I encountered an error processing your question. Please contact your manager or on-call coordinator for assistance."
\* what generate_chat_response returns for an empty provider response
EmptyResponseMessage ==
    "I couldn't generate a response. Please try again or contact your manager."
\* a text the provider generated
GeneratedText == "generated answer"

\* "if not chunks:" of step 2
NoChunksNever(cs) == FALSE
NoChunks(cs) == cs = <<>>

\* "except Exception" of answer_question: build the fallback result
ExceptBranchReraises == "raise"
ExceptBranch == "fallback"

\* the try/except of _log_query around audit_logger.log_query
LogQueryOutcomeRaising(sinkOk) == IF sinkOk THEN "returned" ELSE "raised"
LogQueryOutcome(sinkOk) == "returned"

\* _log_query calls the audit sink only when logging is enabled and both
\* user_id and user_role were supplied
WillLog(c) == c.audit /\ c.user

\* format_sources(chunks)
format_sources(cs) ==
    [i \in 1..Len(cs) |->
        [policy |-> cs[i].policy_name, version |-> cs[i].policy_version,
         relevance_score |-> cs[i].relevance_score]]

NoResult == [answer |-> "", sources |-> <<>>, confidence |-> "", chunks_retrieved |-> 0]

\* the result of the empty-retrieval branch
EscalationResult ==
    [answer |-> EscalationMessage, sources |-> <<>>, confidence |-> "none",
     chunks_retrieved |-> 0]

\* the result of the except branch
FallbackResult ==
    [answer |-> ErrorMessage, sources |-> <<>>, confidence |-> "error",
     chunks_retrieved |-> 0]

\* the result of steps 5-7 for the answer text the generation call returned
AnswerResult(answer, cs) ==
    [answer |-> answer, sources |-> format_sources(cs),
     confidence |-> calculate_confidence(cs), chunks_retrieved |-> Len(cs)]

\* a yielded answer-text fragment
TextFragment(text) ==
    [kind |-> "text", text |-> text, sources |-> <<>>, confidence |-> ""]

\* the final fragment: "\n\n__SOURCES__:" followed by sources and confidence
Sidecar(cs) ==
    [kind |-> "sidecar", text |-> "__SOURCES__:", sources |-> format_sources(cs),
     confidence |-> calculate_confidence(cs)]

NoChat == [started |-> FALSE, stream |-> FALSE, q |-> 0, user |-> FALSE, audit |-> FALSE,
           chunks |-> <<>>, generationCalls |-> 0, generation |-> "",
           fragments |-> 0, built |-> NoResult, result |-> NoResult,
           inExcept |-> FALSE, logCalls |-> 0, logOk |-> TRUE, logsBefore |-> 0]

NoCRes == [outcome |-> "none", result |-> NoResult]

ChatInit ==
    /\ cpc = "idle"
    /\ chat = NoChat
    /\ cres = NoCRes
    /\ yielded = <<>>
    /\ auditLog = <<>>

\* start of the retrieval that both paths await: active_only=True
CallRetrieve(q, top_k, score_threshold) ==
    /\ rpc = "idle"
    /\ rq' = [NoRq EXCEPT !.q = q, !.top_k = top_k,
                          !.score_threshold = score_threshold,
                          !.active_only = TRUE]
    /\ rres' = NoRRes
    /\ rpc' = "r_embed"

\* a call of answer_question(question, user_id, user_role, ..., top_k, score_threshold)
\* on a service built with enable_audit_logging = audit
answer_question(q, top_k, score_threshold, user, audit) ==
    /\ cpc = "idle"
    /\ Len(auditLog) < MaxLogs
    /\ CallRetrieve(q, top_k, score_threshold)
    /\ chat' = [NoChat EXCEPT !.started = TRUE, !.q = q, !.user = user, !.audit = audit,
                              !.logsBefore = Len(auditLog)]
    /\ cres' = NoCRes
    /\ yielded' = <<>>
    /\ cpc' = "c_retrieve"
    /\ UNCHANGED <<adminVars, auditLog, pureVars, globalVars>>

\* a call of answer_question_stream(question, top_k, score_threshold), run by
\* its consumer to the end
answer_question_stream(q, top_k, score_threshold, audit) ==
    /\ cpc = "idle"
    /\ CallRetrieve(q, top_k, score_threshold)
    /\ chat' = [NoChat EXCEPT !.started = TRUE, !.stream = TRUE, !.q = q, !.audit = audit,
                              !.logsBefore = Len(auditLog)]
    /\ cres' = NoCRes
    /\ yielded' = <<>>
    /\ cpc' = "c_retrieve"
    /\ UNCHANGED <<adminVars, auditLog, pureVars, globalVars>>

\* answer_question has its result: it calls _log_query, which returns at once
\* unless it calls the audit sink, and then returns the result
Finish(c, result) ==
    /\ yielded' = yielded
    /\ IF WillLog(c)
       THEN /\ chat' = [c EXCEPT !.result = result, !.built = result]
            /\ cpc' = "c_log"
            /\ cres' = cres
       ELSE /\ chat' = [c EXCEPT !.result = result, !.built = result]
            /\ cpc' = "idle"
            /\ cres' = [outcome |-> "returned", result |-> result]

\* an exception reaches the except branch of answer_question
Except(c) ==
    IF ExceptBranch = "fallback"
    THEN Finish([c EXCEPT !.inExcept = TRUE], FallbackResult)
    ELSE /\ chat' = c
         /\ cpc' = "idle"
         /\ cres' = [outcome |-> "raised", result |-> NoResult]
         /\ yielded' = yielded

\* answer_question_stream ends after yielding the given fragments
StreamEnd(c, fragments) ==
    /\ chat' = c
    /\ yielded' = yielded \o fragments
    /\ cpc' = "idle"
    /\ cres' = [outcome |-> "completed", result |-> NoResult]

\* retrieve_relevant_chunks has returned or raised: steps 1 and 2 of both paths
ChatRetrieved ==
    /\ cpc = "c_retrieve"
    /\ rpc = "idle"
    /\ rres.outcome # "none"
    /\ LET c == [chat EXCEPT !.chunks = rres.chunks]
       IN IF rres.outcome = "error"
          THEN IF chat.stream
               THEN StreamEnd(chat, <<TextFragment(StreamErrorMessage)>>)
               ELSE Except(chat)
          ELSE IF NoChunks(rres.chunks)
          THEN IF chat.stream
               THEN StreamEnd(c, <<TextFragment(StreamEscalationMessage)>>)
               ELSE Finish(c, EscalationResult)
          ELSE /\ chat' = c
               /\ cpc' = IF chat.stream THEN "c_stream" ELSE "c_generate"
               /\ UNCHANGED <<cres, yielded>>
    /\ UNCHANGED <<adminVars, retrievalVars, auditLog, pureVars, globalVars>>

\* steps 3-7 of answer_question: await self.gemini.generate_chat_response(...),
\* which raises only without a client and otherwise returns a text:
\* the provider's, the empty-response message, or the provider-error message
ChatGenerate(outcome) ==
    /\ cpc = "c_generate"
    /\ LET c == [chat EXCEPT !.generationCalls = @ + 1, !.generation = outcome]
       IN CASE outcome = "no_client" -> Except(c)
            [] outcome = "text" -> Finish(c, AnswerResult(GeneratedText, c.chunks))
            [] outcome = "empty" -> Finish(c, AnswerResult(EmptyResponseMessage, c.chunks))
            [] outcome = "provider_error" ->
                   Finish(c, AnswerResult(ProviderErrorMessage, c.chunks))
    /\ UNCHANGED <<adminVars, retrievalVars, auditLog, pureVars, globalVars>>

\* steps 3-6 of answer_question_stream, one event of the provider stream:
\* no client (raised at the first iteration), a text fragment, the provider
\* failing (the provider-error message is yielded and the stream ends), or
\* the end of the stream; after the stream the sidecar is yielded
ChatStream(event) ==
    /\ cpc = "c_stream"
    /\ LET c == [chat EXCEPT !.generationCalls = 1, !.generation = event]
       IN CASE event = "no_client" ->
                   /\ chat.fragments = 0
                   /\ StreamEnd(c, <<TextFragment(StreamErrorMessage)>>)
            [] event = "text" ->
                   /\ chat.fragments < MaxFragments
                   /\ chat' = [c EXCEPT !.fragments = @ + 1]
                   /\ yielded' = Append(yielded, TextFragment(GeneratedText))
                   /\ UNCHANGED <<cpc, cres>>
            [] event = "provider_error" ->
                   StreamEnd(c, <<TextFragment(ProviderErrorMessage), Sidecar(c.chunks)>>)
            [] event = "end" ->
                   StreamEnd([c EXCEPT !.generation = IF chat.fragments = 0 THEN "empty"
                                                      ELSE "text"],
                             <<Sidecar(c.chunks)>>)
    /\ UNCHANGED <<adminVars, retrievalVars, auditLog, pureVars, globalVars>>

\* the QueryLog row written for the call
LogEntry(c) ==
    [question |-> c.q, answer |-> c.result.answer, confidence |-> c.result.confidence]

\* _log_query: await self.audit_logger.log_query(...), which commits one
\* QueryLog row or rolls back and raises; then answer_question returns
ChatLog(sinkOk) ==
    /\ cpc = "c_log"
    /\ auditLog' = IF sinkOk THEN Append(auditLog, LogEntry(chat)) ELSE auditLog
    /\ yielded' = yielded
    /\ LET c == [chat EXCEPT !.logCalls = @ + 1, !.logOk = @ /\ sinkOk]
       IN IF LogQueryOutcome(sinkOk) = "returned"
          THEN /\ chat' = c
               /\ cpc' = "idle"
               /\ cres' = [outcome |-> "returned", result |-> c.result]
          ELSE IF ~c.inExcept
          THEN /\ chat' = [c EXCEPT !.inExcept = TRUE, !.result = FallbackResult]
               /\ UNCHANGED <<cpc, cres>>
          ELSE /\ chat' = c
               /\ cpc' = "idle"
               /\ cres' = [outcome |-> "raised", result |-> NoResult]
    /\ UNCHANGED <<adminVars, retrievalVars, pureVars, globalVars>>

----------------------------------------------------------------------------
(* GeminiService.generate_embeddings_batch *)

EmbedTexts == {1, 2}
EmbedInputs == UNION {[1..n -> EmbedTexts] : n \in 0..MaxTexts}

\* the vector the provider computes for a text
EmbeddingOf(t) == t + 10

\* texts[i:i + batch_size], i counted from 0
Batch(texts, i, batch_size) ==
    SubSeq(texts, i + 1, IF i + batch_size < Len(texts) THEN i + batch_size ELSE Len(texts))

\* the provider's response with one vector per input, in input order
ProviderVectors(batch) == [j \in 1..Len(batch) |-> EmbeddingOf(batch[j])]

NoEb == [outcome |-> "none", failedAt |-> "", texts |-> <<>>, batch_size |-> 0,
         i |-> 0, requests |-> <<>>, responses |-> <<>>, all_embeddings |-> <<>>]

\* a call of generate_embeddings_batch(texts, batch_size): the client check,
\* and the return of the empty list when the loop has nothing to run over
generate_embeddings_batch(texts, batch_size, client) ==
    /\ eb.outcome # "running"
    /\ eb' = [NoEb EXCEPT !.texts = texts, !.batch_size = batch_size,
                          !.outcome = IF ~client THEN "error"
                                      ELSE IF texts = <<>> THEN "ok" ELSE "running",
                          !.failedAt = IF ~client THEN "no_client" ELSE ""]
    /\ UNCHANGED <<adminVars, retrievalVars, chatVars, conf, ct, globalVars>>

\* what the provider returns for a batch: it raises, or it returns the
\* vectors of the batch in input order with d vectors too many (d > 0, the
\* surplus being a vector of no text) or too few (d < 0)
ProviderResponse(batch, raises, d) ==
    IF raises THEN [kind |-> "raise", embeddings |-> <<>>]
    ELSE [kind |-> "embeddings",
          embeddings |-> SubSeq(ProviderVectors(batch) \o <<0>>, 1, Len(batch) + d)]

\* line 99, batch_embeddings = [emb.values for emb.values in response.embeddings]:
\* the loop target is the attribute reference emb.values while no name emb
\* is bound, so evaluating it for a non-empty response raises NameError
ReadValuesBound(embeddings) == [raised |-> FALSE, values |-> embeddings]
ReadValues(embeddings) == [raised |-> TRUE, values |-> <<>>]

\* one iteration of the loop: the request for the batch at eb.i, the
\* provider's response, the lines that read the vectors out of it, and the
\* return after the last batch
EmbedBatch(raises, d) ==
    /\ eb.outcome = "running"
    /\ LET batch == Batch(eb.texts, eb.i, eb.batch_size)
           response == ProviderResponse(batch, raises, d)
           e == [eb EXCEPT !.requests = Append(@, batch),
                           !.responses = Append(@, response)]
           batch_embeddings == ReadValues(response.embeddings)
       IN eb' = IF response.kind = "raise"
                THEN [e EXCEPT !.outcome = "error", !.failedAt = "provider"]
                ELSE IF response.embeddings = <<>>
                THEN [e EXCEPT !.outcome = "error", !.failedAt = "no_embeddings"]
                ELSE IF batch_embeddings.raised
                THEN [e EXCEPT !.outcome = "error", !.failedAt = "name_error"]
                ELSE [e EXCEPT !.all_embeddings = @ \o batch_embeddings.values,
                               !.i = @ + eb.batch_size,
                               !.outcome = IF eb.i + eb.batch_size >= Len(eb.texts)
                                           THEN "ok" ELSE "running"]
    /\ UNCHANGED <<adminVars, retrievalVars, chatVars, conf, ct, globalVars>>

----------------------------------------------------------------------------
(* pdf_parser.detect_sections and pdf_parser.chunk_text *)

(* A text is a sequence of characters over the alphabet                    *)
(*   "a" (a lower-case letter), "A" (an upper-case letter), " ", "\n",     *)
(*   "." (a sentence terminator) and "#".                                  *)
(* Offsets are counted from 0 as in the code: the character at offset i of *)
(* text t is t[i + 1], and the slice t[a:b] holds the offsets a .. b - 1.  *)

Run(c, n) == [i \in 1..n |-> c]

\* a heading line "# Aa" with its newline
HeadingLine == <<"#", " ", "A", "a", "\n">>

RunLengths == {99, 100, 130}

Segments ==
    {Run("a", n) : n \in RunLengths}
        \cup {<<" ">>, <<".", " ">>, HeadingLine, <<"\n">> \o HeadingLine}

RECURSIVE SegmentTexts(_)
SegmentTexts(n) ==
    IF n = 0 THEN {<<>>}
    ELSE LET shorter == SegmentTexts(n - 1)
         IN shorter \cup {t \o seg : t \in shorter, seg \in Segments}

ChunkTexts == SegmentTexts(MaxSegments)
ChunkSizes == {100, 131}
Overlaps == {0, 20}

IsSpace(c) == c \in {" ", "\n"}
IsUpper(c) == c = "A"

Smaller(a, b) == IF a < b THEN a ELSE b

\* offset of the first character of t[a:b].lstrip(), b if there is none
LStrip(t, a, b) ==
    IF a >= b THEN a
    ELSE a + CHOOSE k \in 0..(b - a) :
                 /\ \A j \in 0..(k - 1) : IsSpace(t[a + j + 1])
                 /\ k = b - a \/ ~IsSpace(t[a + k + 1])

\* offset after the last character of t[a:b].rstrip(), a if there is none
RStrip(t, a, b) ==
    IF a >= b THEN b
    ELSE b - CHOOSE k \in 0..(b - a) :
                 /\ \A j \in 0..(k - 1) : IsSpace(t[b - j])
                 /\ k = b - a \/ ~IsSpace(t[b - k])

\* the span of t[a:b].strip() in t; start = end when nothing is left
StripSpan(t, a, b) ==
    LET s == LStrip(t, a, b)
    IN [start |-> s, end |-> IF s >= b THEN s ELSE RStrip(t, s, b)]

\* the least element of a non-empty set of offsets
Least(S) == CHOOSE i \in S : \A j \in S : i <= j

\* offset of the end of the line that holds offset i ("$" with re.MULTILINE)
LineEnd(t, i) ==
    LET newlines == {j \in i..(Len(t) - 1) : t[j + 1] = "\n"}
    IN IF newlines = {} THEN (IF i > Len(t) THEN i ELSE Len(t)) ELSE Least(newlines)

IsHash(c) == c = "#"
IsCapsOrSpace(c) == IsUpper(c) \/ IsSpace(c)

\* the character classes "#", \s and [A-Z\s]
InClass(c, class) ==
    CASE class = "hash" -> IsHash(c)
      [] class = "space" -> IsSpace(c)
      [] class = "caps_or_space" -> IsCapsOrSpace(c)

\* number of characters from offset i on, at most max, that are in the class
RunOf(t, i, max, class) ==
    LET most == IF Len(t) - i < max THEN (IF Len(t) < i THEN 0 ELSE Len(t) - i) ELSE max
    IN CHOOSE k \in 0..most :
           /\ \A j \in 0..(k - 1) : InClass(t[i + j + 1], class)
           /\ k = most \/ ~InClass(t[i + k + 1], class)

\* end offset of a match of ^(#{1,3}\s+[A-Z][^\n]{0,100})$ at offset i, -1 if none
MarkdownHeadingEnd(t, i) ==
    LET h == RunOf(t, i, 4, "hash")
        w == RunOf(t, i + h, Len(t), "space")
        u == i + h + w
        e == LineEnd(t, u)
    IN IF /\ h \in 1..3
          /\ w >= 1
          /\ u < Len(t)
          /\ IsUpper(t[u + 1])
          /\ e - (u + 1) <= 100
       THEN e ELSE -1

\* end offset of a match of ^([A-Z][A-Z\s]{10,100})$ at offset i, -1 if none
CapsHeadingEnd(t, i) ==
    IF i < Len(t) /\ IsUpper(t[i + 1])
    THEN LET r == RunOf(t, i + 1, 100, "caps_or_space")
             ends == {k \in 10..r : i + 1 + k = Len(t) \/ t[i + 2 + k] = "\n"}
         IN IF ends = {} THEN -1
            ELSE i + 1 + CHOOSE k \in ends : \A j \in ends : j <= k
    ELSE -1

\* end offset of a match of the combined pattern at offset i, -1 if none.
\* The alphabet has no digit, so the two numbered patterns match nowhere.
HeadingEnd(t, i) ==
    IF MarkdownHeadingEnd(t, i) # -1 THEN MarkdownHeadingEnd(t, i) ELSE CapsHeadingEnd(t, i)

\* offsets where "^" matches with re.MULTILINE
LineStarts(t) == {0} \cup {i \in 1..Len(t) : t[i] = "\n"}

\* re.finditer: the start offsets of the matches at or after offset pos, in
\* order, each search resuming at the end of the previous match
RECURSIVE HeadingStarts(_, _)
HeadingStarts(t, pos) ==
    LET found == {i \in LineStarts(t) : i >= pos /\ i < Len(t) /\ HeadingEnd(t, i) # -1}
    IN IF found = {} THEN <<>>
       ELSE LET first == CHOOSE i \in found : \A j \in found : i <= j
            IN <<first>> \o HeadingStarts(t, HeadingEnd(t, first))

\* lines 160-164: the end of span i is the start of span i + 1, and the
\* end of the last span is len(text)
SpanEndUnset(starts, i, n) == IF i + 1 <= Len(starts) THEN starts[i + 1] ELSE -1
SpanEnd(starts, i, n) == IF i + 1 <= Len(starts) THEN starts[i + 1] ELSE n

\* detect_sections(text): the (start_pos, end_pos) of the returned tuples;
\* the section name, the text of the heading, is not kept
detect_sections(t) ==
    LET starts == HeadingStarts(t, 0)
    IN [i \in 1..Len(starts) |->
           [start_pos |-> starts[i], end_pos |-> SpanEnd(starts, i, Len(t))]]

\* a section list with an empty section in the middle
SplitSections(t) ==
    LET h == Len(t) \div 2
    IN <<[start_pos |-> 0, end_pos |-> h], [start_pos |-> h, end_pos |-> h],
         [start_pos |-> h, end_pos |-> Len(t)]>>

\* the sections argument: what detect_sections returns (as ingest_policy
\* passes it), None, or a list given by the caller
SectionModes == {"detected", "none", "given"}

SectionsArg(t, mode) ==
    CASE mode = "detected" -> detect_sections(t)
      [] mode = "none" -> <<>>
      [] mode = "given" -> SplitSections(t)

\* lines 194-195: if not sections: sections = [("Document", 0, len(text))]
EffectiveSections(t, sections) ==
    IF sections = <<>> THEN <<[start_pos |-> 0, end_pos |-> Len(t)]>> ELSE sections

\* the span in text of section_text = text[section_start:section_end].strip()
SectionSpan(t, sec) ==
    StripSpan(t, Smaller(sec.start_pos, Len(t)), Smaller(sec.end_pos, Len(t)))

SentenceLookahead == 100

\* re.search(r"[.!?]\s", t[a:b]): the end offset of the first match, -1 if none
SentenceEnd(t, a, b) ==
    LET matches == {i \in a..(b - 2) : t[i + 1] = "." /\ IsSpace(t[i + 2])}
    IN IF matches = {} THEN -1 ELSE Least(matches) + 2

\* line 197: chunk_index is set once, before the loop over the sections
SectionStartIndexReset(chunk_index) == 0
SectionStartIndex(chunk_index) == chunk_index

\* line 223: if len(chunk) < 100: break
TooSmallNever(n) == FALSE
TooSmall(n) == n < MinChunkChars

\* line 239: position += chunk_size - overlap
AdvanceByLength(position, chunk_end, chunk_size, overlap) == chunk_end - overlap
AdvanceHalf(position, chunk_end, chunk_size, overlap) ==
    position + (chunk_size - overlap) \div 2
Advance(position, chunk_end, chunk_size, overlap) == position + chunk_size - overlap

NoCt == [pc |-> "done", mode |-> "none", text |-> <<>>, detected |-> <<>>,
         sections |-> <<>>, chunk_size |-> 0, overlap |-> 0,
         section |-> 1, base |-> 0, length |-> 0, position |-> 0,
         chunk_index |-> 0, windows |-> <<>>, chunks |-> <<>>]

\* the arguments of a run: the text, where the sections argument comes
\* from, chunk_size and overlap
ChunkCall(t, mode, chunk_size, overlap) ==
    [NoCt EXCEPT !.pc = "detect", !.mode = mode, !.text = t,
                 !.chunk_size = chunk_size, !.overlap = overlap]

\* detect_sections(text), then the call chunk_text(text, sections,
\* chunk_size, overlap) up to the head of its loop over the sections
Started(c) ==
    [c EXCEPT !.pc = "section",
              !.detected = detect_sections(c.text),
              !.sections = EffectiveSections(c.text, SectionsArg(c.text, c.mode))]

ChunkStart ==
    /\ ct.pc = "detect"
    /\ ct' = Started(ct)
    /\ UNCHANGED <<adminVars, retrievalVars, chatVars, conf, eb, globalVars>>

\* the head of the loop over the sections: the return after the last
\* section, the skip of an empty section, or the entry of the window loop
ChunkSection ==
    /\ ct.pc = "section"
    /\ IF ct.section > Len(ct.sections)
       THEN ct' = [ct EXCEPT !.pc = "done"]
       ELSE LET span == SectionSpan(ct.text, ct.sections[ct.section])
            IN IF span.end <= span.start
               THEN ct' = [ct EXCEPT !.section = @ + 1]
               ELSE ct' = [ct EXCEPT !.pc = "window", !.base = span.start,
                                     !.length = span.end - span.start,
                                     !.position = 0,
                                     !.chunk_index = SectionStartIndex(@)]
    /\ UNCHANGED <<adminVars, retrievalVars, chatVars, conf, eb, globalVars>>

\* one iteration of the window loop; offsets are absolute, ct.base being
\* the offset of section_text in text
ChunkWindow ==
    /\ ct.pc = "window"
    /\ LET t == ct.text
           from == ct.base + ct.position
           stop == ct.base + ct.length
           window_end == Smaller(from + ct.chunk_size, stop)
           sentence == IF window_end < stop
                       THEN SentenceEnd(t, window_end,
                                        Smaller(window_end + SentenceLookahead, stop))
                       ELSE -1
           chunk_end == IF sentence # -1 THEN sentence ELSE window_end
           chunk == StripSpan(t, from, chunk_end)
           emitted == ~TooSmall(chunk.end - chunk.start)
           window == [section |-> ct.section, position |-> ct.position,
                      from |-> from, chunk_end |-> chunk_end - ct.base,
                      stripped_end |-> chunk.end - ct.base,
                      emitted |-> emitted]
           position == Advance(ct.position, chunk_end - ct.base, ct.chunk_size, ct.overlap)
       IN IF ~emitted
          THEN ct' = [ct EXCEPT !.windows = Append(@, window),
                                !.pc = "section", !.section = @ + 1]
          ELSE ct' = [ct EXCEPT
                 !.windows = Append(@, window),
                 !.chunks = Append(@, [chunk_index |-> ct.chunk_index,
                                       section |-> ct.section,
                                       start |-> chunk.start, end |-> chunk.end]),
                 !.chunk_index = @ + 1,
                 !.position = position,
                 !.pc = IF position >= ct.length THEN "section" ELSE "window",
                 !.section = IF position >= ct.length THEN @ + 1 ELSE @]
    /\ UNCHANGED <<adminVars, retrievalVars, chatVars, conf, eb, globalVars>>

----------------------------------------------------------------------------
(* The singleton getters get_qdrant_service and get_gemini_service *)

Callers == 1..MaxCallers

\* a global is "none" (None), "no_client" (a service whose client is None)
\* or "client" (a service whose client is set)
NoCall == [pc |-> "idle", outcome |-> "none", client |-> FALSE]

NoGs == [api_key |-> TRUE, qdrant |-> "none", gemini |-> "none",
         call |-> [c \in Callers |-> NoCall]]

GlobalInit == gs = NoGs

Returned(service) == [pc |-> "idle", outcome |-> "returned", client |-> service = "client"]

Raised == [pc |-> "idle", outcome |-> "raised", client |-> FALSE]

\* get_qdrant_service(), up to the first await of initialize or to its
\* return: the global is assigned before initialize runs, and initialize
\* sets self.client from the AsyncQdrantClient constructor, which may raise
get_qdrant_service(c, constructed) ==
    /\ gs.call[c].pc = "idle"
    /\ IF gs.qdrant # "none"
       THEN gs' = [gs EXCEPT !.call[c] = Returned(gs.qdrant)]
       ELSE IF constructed
       THEN gs' = [gs EXCEPT !.qdrant = "client",
                             !.call[c] = [NoCall EXCEPT !.pc = "q_collections"]]
       ELSE gs' = [gs EXCEPT !.qdrant = "no_client", !.call[c] = Raised]
    /\ UNCHANGED <<adminVars, retrievalVars, chatVars, pureVars>>

\* initialize: await self.client.get_collections() returns or raises
QdrantCollections(c, ok, exists) ==
    /\ gs.call[c].pc = "q_collections"
    /\ gs' = [gs EXCEPT !.call[c] =
                 IF ~ok THEN Raised
                 ELSE IF exists THEN Returned(gs.qdrant)
                 ELSE [NoCall EXCEPT !.pc = "q_create"]]
    /\ UNCHANGED <<adminVars, retrievalVars, chatVars, pureVars>>

\* initialize: await self.create_collection() returns or raises
QdrantCreate(c, ok) ==
    /\ gs.call[c].pc = "q_create"
    /\ gs' = [gs EXCEPT !.call[c] = IF ok THEN Returned(gs.qdrant) ELSE Raised]
    /\ UNCHANGED <<adminVars, retrievalVars, chatVars, pureVars>>

\* get_gemini_service(): synchronous; initialize raises ValueError when
\* GEMINI_API_KEY is not set, after the global was assigned
get_gemini_service(c) ==
    /\ gs.call[c].pc = "idle"
    /\ IF gs.gemini # "none"
       THEN gs' = [gs EXCEPT !.call[c] = Returned(gs.gemini)]
       ELSE IF gs.api_key
       THEN gs' = [gs EXCEPT !.gemini = "client", !.call[c] = Returned("client")]
       ELSE gs' = [gs EXCEPT !.gemini = "no_client", !.call[c] = Raised]
    /\ UNCHANGED <<adminVars, retrievalVars, chatVars, pureVars>>

PureInit ==
    /\ conf = NoConf
    /\ eb = NoEb
    /\ ct = NoCt

----------------------------------------------------------------------------
Init == AdminInit /\ RetrievalInit /\ ChatInit /\ PureInit /\ GlobalInit

\* the administration requests
AdminNext ==
    \/ \E name \in Names, version \in Versions, eff \in Dates, text \in Texts,
          extractOk \in BOOLEAN :
          ingest_policy(name, version, eff, text, extractOk)
    \/ \E old \in PolicyIds, version \in Versions, eff \in Dates, getOk \in BOOLEAN :
          update_policy(old, version, eff, getOk)
    \/ \E ok \in BOOLEAN, text \in Texts, extractOk \in BOOLEAN :
          UpdateDeleteVectors(ok, text, extractOk)
    \/ \E id \in PolicyIds, svc \in BOOLEAN, getOk \in BOOLEAN :
          delete_policy(id, svc, getOk)
    \/ \E ok \in BOOLEAN : DeleteVectors(ok)
    \/ \E ok \in BOOLEAN : DeleteCommit(ok)
    \/ \E ok \in BOOLEAN : DeleteRefresh(ok)

\* the retrieval requests
RetrievalNext ==
    \/ \E q \in Questions, top_k \in 1..MaxTopK, score_threshold \in Thresholds,
          active_only \in BOOLEAN :
          retrieve_relevant_chunks(q, top_k, score_threshold, active_only)
    \/ \E ok \in BOOLEAN : REmbed(ok)
    \/ \E ok \in BOOLEAN : RActiveIds(ok)
    \/ \E ok \in BOOLEAN : RSearch(ok)
    \/ \E ok \in BOOLEAN : RGet(ok)

\* the administration flow alone, from every store content
SpecAdmin == Init /\ [][AdminNext]_vars

\* the retrieval flow alone, over every store content
SpecRetrieval == Init /\ [][RetrievalNext]_vars

\* answer_question and answer_question_stream retrieve with active_only=True
\* while a delete request runs in another task: the two interleave at their awaits
ConcurrentNext ==
    \/ \E q \in Questions, top_k \in 1..MaxTopK, score_threshold \in Thresholds :
          retrieve_relevant_chunks(q, top_k, score_threshold, TRUE)
    \/ \E ok \in BOOLEAN : REmbed(ok)
    \/ \E ok \in BOOLEAN : RActiveIds(ok)
    \/ \E ok \in BOOLEAN : RSearch(ok)
    \/ \E ok \in BOOLEAN : RGet(ok)
    \/ \E id \in PolicyIds, svc \in BOOLEAN, getOk \in BOOLEAN :
          delete_policy(id, svc, getOk)
    \/ \E ok \in BOOLEAN : DeleteVectors(ok)
    \/ \E ok \in BOOLEAN : DeleteCommit(ok)
    \/ \E ok \in BOOLEAN : DeleteRefresh(ok)

SpecConcurrent == Init /\ [][ConcurrentNext]_vars

\* the chat requests, with the retrieval steps they await
ChatNext ==
    \/ \E q \in Questions, top_k \in 1..MaxTopK, score_threshold \in Thresholds,
          user \in BOOLEAN, audit \in BOOLEAN :
          answer_question(q, top_k, score_threshold, user, audit)
    \/ \E q \in Questions, top_k \in 1..MaxTopK, score_threshold \in Thresholds,
          audit \in BOOLEAN :
          answer_question_stream(q, top_k, score_threshold, audit)
    \/ \E ok \in BOOLEAN : REmbed(ok)
    \/ \E ok \in BOOLEAN : RActiveIds(ok)
    \/ \E ok \in BOOLEAN : RSearch(ok)
    \/ \E ok \in BOOLEAN : RGet(ok)
    \/ ChatRetrieved
    \/ \E outcome \in {"no_client", "text", "empty", "provider_error"} : ChatGenerate(outcome)
    \/ \E event \in {"no_client", "text", "provider_error", "end"} : ChatStream(event)
    \/ \E sinkOk \in BOOLEAN : ChatLog(sinkOk)

SpecChat == Init /\ [][ChatNext]_vars

\* no Document and no vector stored, nothing running
NoStoreInit ==
    /\ policies = << >>
    /\ txPolicies = << >>
    /\ chunks = {}
    /\ vectors = {}
    /\ pre = [policies |-> << >>, chunks |-> {}, vectors |-> {}]
    /\ pc = "idle"
    /\ op = NoOp
    /\ res = NoRes

\* calculate_confidence applied to every chunk set of ConfInputs
ConfidenceInit ==
    /\ NoStoreInit /\ RetrievalInit /\ ChatInit
    /\ conf \in {[NoConf EXCEPT !.chunks = cs] : cs \in ConfInputs}
    /\ eb = NoEb
    /\ ct = NoCt
    /\ GlobalInit

SpecConfidence == ConfidenceInit /\ [][ConfidenceCall]_vars

\* generate_embeddings_batch called with every texts of EmbedInputs
EmbedNext ==
    \/ \E texts \in EmbedInputs, batch_size \in 1..MaxBatchSize, client \in BOOLEAN :
          generate_embeddings_batch(texts, batch_size, client)
    \/ \E raises \in BOOLEAN, d \in {-1, 0, 1} : EmbedBatch(raises, d)

EmbedInit == NoStoreInit /\ RetrievalInit /\ ChatInit /\ PureInit /\ GlobalInit

SpecEmbed == EmbedInit /\ [][EmbedNext]_vars

\* chunk_text called with every text of ChunkTexts
ChunkInit ==
    /\ NoStoreInit /\ RetrievalInit /\ ChatInit /\ GlobalInit
    /\ conf = NoConf
    /\ eb = NoEb
    /\ ct \in {ChunkCall(t, mode, chunk_size, overlap) :
                  t \in ChunkTexts, mode \in SectionModes,
                  chunk_size \in ChunkSizes, overlap \in Overlaps}

ChunkNext == ChunkStart \/ ChunkSection \/ ChunkWindow

SpecChunk == ChunkInit /\ [][ChunkNext]_vars

\* chunk_text alone, called with every text of ChunkTexts and its sections
\* argument, at the head of its loop over the sections
ChunkLoopInit ==
    /\ NoStoreInit /\ RetrievalInit /\ ChatInit /\ GlobalInit
    /\ conf = NoConf
    /\ eb = NoEb
    /\ ct \in {Started(ChunkCall(t, mode, chunk_size, overlap)) :
                  t \in ChunkTexts, mode \in SectionModes,
                  chunk_size \in ChunkSizes, overlap \in Overlaps}

ChunkLoopNext == ChunkSection \/ ChunkWindow

\* chunk_text runs on: no step of it waits for anything
SpecChunkFair == ChunkLoopInit /\ [][ChunkLoopNext]_vars /\ WF_vars(ChunkLoopNext)

\* the getters called from MaxCallers tasks, with and without an API key
SingletonInit ==
    /\ NoStoreInit /\ RetrievalInit /\ ChatInit /\ PureInit
    /\ gs \in {[NoGs EXCEPT !.api_key = k] : k \in BOOLEAN}

SingletonNext ==
    \/ \E c \in Callers, constructed \in BOOLEAN : get_qdrant_service(c, constructed)
    \/ \E c \in Callers, ok \in BOOLEAN, exists \in BOOLEAN : QdrantCollections(c, ok, exists)
    \/ \E c \in Callers, ok \in BOOLEAN : QdrantCreate(c, ok)
    \/ \E c \in Callers : get_gemini_service(c)

SpecSingleton == SingletonInit /\ [][SingletonNext]_vars

Next == AdminNext \/ RetrievalNext \/ ChatNext \/ ConfidenceCall \/ EmbedNext
            \/ ChunkNext \/ SingletonNext

\* all flows, interleaved at their awaits
Spec == Init /\ [][Next]_vars

----------------------------------------------------------------------------
(* Properties of the administration flow, checked under SpecAdmin *)

\* every character of the text is whitespace
Blank(text) == \A i \in 1..Len(text) : text[i] = " "

\* the last administration call has ended
Ended(kinds) == pc = "idle" /\ op.kind \in kinds /\ res.outcome # "none"

\* the two stores are as they were when the last call started
StoresAsBefore ==
    /\ policies = pre.policies
    /\ chunks = pre.chunks
    /\ vectors = pre.vectors

\* the last call ended for a reason outside the operation itself: a
\* collaborator raised, the Document does not exist, or the text is blank
ExternalFailure ==
    res.failedAt \in {"get", "not_found", "qdrant_delete", "extract", "empty_text",
                      "commit", "refresh"}

\* C2: a successful ingest_policy whose chunker emitted N chunks commits exactly
\* N chunk rows for the new Document and returns N, each row with a fresh,
\* distinct vector key.  Stated for a call on which no collaborator fails and
\* whose text is long enough for a chunk: it commits a new Document with at
\* least one chunk row, returns their number, and every key is new.
IngestRoundTrip ==
    (Ended({"ingest"}) /\ ~ExternalFailure /\ Len(op.text) >= MinChunkChars)
        => /\ res.outcome = "ok"
           /\ res.policy_id \in DOMAIN policies \ DOMAIN pre.policies
           /\ res.chunk_count >= 1
           /\ Cardinality({c \in chunks : c.policy_id = res.policy_id}) = res.chunk_count
           /\ \A c \in chunks \ pre.chunks :
                 /\ c.policy_id = res.policy_id
                 /\ \A v \in pre.vectors : v.id # c.embedding_id
                 /\ \E v \in vectors : v.id = c.embedding_id /\ v.chunk_index = c.chunk_index

UpdateReversions ==
    (Ended({"update"}) /\ ~ExternalFailure /\ Len(op.text) >= MinChunkChars)
        => /\ res.outcome = "ok"
           /\ policies[op.target].status = "inactive"
           /\ policies[op.target].effective_to = op.eff
           /\ \A v \in vectors : v.policy_id # op.target
           /\ \A c \in pre.chunks : c \in chunks
           /\ \E n \in DOMAIN policies \ DOMAIN pre.policies :
                 /\ policies[n].name = pre.policies[op.target].name
                 /\ policies[n].version = op.version
                 /\ policies[n].status = "active"

\* C6, effect: a successful delete of an existing Document sets its status to
\* archived, removes its vectors and nothing else from the vector store, and
\* leaves every other field of the row, every other row and every chunk row
\* as it was.
DeleteEffect ==
    (Ended({"delete", "delete_service"}) /\ res.outcome = "ok")
        => /\ op.target \in DOMAIN pre.policies
           /\ DOMAIN policies = DOMAIN pre.policies
           /\ policies[op.target] = [name |-> pre.policies[op.target].name,
                                     version |-> pre.policies[op.target].version,
                                     status |-> "archived",
                                     effective_from |-> pre.policies[op.target].effective_from,
                                     effective_to |-> pre.policies[op.target].effective_to]
           /\ \A i \in DOMAIN policies \ {op.target} : policies[i] = pre.policies[i]
           /\ chunks = pre.chunks
           /\ vectors = {v \in pre.vectors : v.policy_id # op.target}

\* C6, frame: no step of ingest, re-version or delete removes a Document row
\* or a chunk row.
NoRowRemoved ==
    /\ DOMAIN policies \subseteq DOMAIN policies'
    /\ chunks \subseteq chunks'

\* C6: a successful delete is a soft delete (DeleteEffect), and no ingest,
\* re-version or delete operation ever removes a Document or chunk row.
SoftDelete == [](DeleteEffect) /\ [][NoRowRemoved]_vars

\* C6 witness: delete_policy_service archived an active Document that had
\* vectors and chunk rows
SoftDeleteWitness ==
    /\ Ended({"delete_service"})
    /\ res.outcome = "ok"
    /\ pre.policies[op.target].status = "active"
    /\ \E v \in pre.vectors : v.policy_id = op.target
    /\ \E c \in chunks : c.policy_id = op.target

----------------------------------------------------------------------------
(* Properties of the retrieval flow, checked under SpecRetrieval *)

\* the metadata store holds no active Document
NoActiveDocument == \A i \in DOMAIN policies : policies[i].status # "active"

\* C8: a call with active_only=True while no Document is active never invokes
\* the similarity search, and once the active-id query has returned the call
\* has returned the empty list.
ShortCircuit ==
    (rq.active_only /\ NoActiveDocument)
        => /\ rq.searchCalls = 0
           /\ rpc # "r_search"
           /\ rq.idsRead => (rpc = "idle" /\ rres.outcome = "ok" /\ rres.chunks = <<>>)

\* C8 witness: the call returned [] although the vector store holds a vector
\* that scores above the threshold
ShortCircuitWitness ==
    /\ rq.active_only
    /\ NoActiveDocument
    /\ rq.idsRead
    /\ rres.outcome = "ok"
    /\ \E v \in vectors : Score(rq.q, v.emb) >= rq.score_threshold

\* C9: every returned RetrievedChunk carries the score of its vector against
\* the question, and that score is at least score_threshold.
HardThreshold ==
    rres.outcome = "ok"
        => \A i \in 1..Len(rres.chunks) :
              /\ rres.chunks[i].relevance_score >= rq.score_threshold
              /\ \E v \in vectors :
                    /\ v.id = rres.chunks[i].embedding_id
                    /\ Score(rq.q, v.emb) = rres.chunks[i].relevance_score

\* C9 witness: a non-empty result although a vector of a resolvable Document
\* scores below the threshold, with room left under top_k
HardThresholdWitness ==
    /\ rres.outcome = "ok"
    /\ rres.chunks # <<>>
    /\ Len(rres.chunks) < rq.top_k
    /\ \E v \in vectors :
          /\ Score(rq.q, v.emb) < rq.score_threshold
          /\ v.policy_id \in DOMAIN policies
          /\ rq.active_only => policies[v.policy_id].status = "active"

\* the hits of the last call whose parent Document is in the metadata store
RECURSIVE Resolvable(_)
Resolvable(hits) ==
    IF hits = <<>> THEN <<>>
    ELSE (IF Head(hits).policy_id \in DOMAIN policies THEN <<Head(hits)>> ELSE <<>>)
             \o Resolvable(Tail(hits))

\* C10: for every list of hits, once every lookup has returned the call
\* returns normally with exactly the resolvable hits in their order; a hit
\* that does not resolve is dropped and never makes the call fail, also when
\* no hit resolves.
SkipsUnresolved ==
    (rpc = "idle" /\ rq.hits # <<>> /\ Len(rq.found) = Len(rq.hits))
        => /\ rres.outcome = "ok"
           /\ Len(rres.chunks) = Len(Resolvable(rq.hits))
           /\ \A i \in 1..Len(rres.chunks) :
                 rres.chunks[i].embedding_id = Resolvable(rq.hits)[i].embedding_id

----------------------------------------------------------------------------
(* Retrieval concurrent with a delete, checked under SpecConcurrent *)

\* the step on which retrieve_relevant_chunks(active_only=True) returns: every
\* returned chunk belongs to a Document that is active in the metadata store
ReturnsActiveOnly ==
    (rpc # "idle" /\ rpc' = "idle" /\ rres'.outcome = "ok" /\ rq'.active_only)
        => \A i \in 1..Len(rres'.chunks) :
              /\ rres'.chunks[i].policy_id \in DOMAIN policies'
              /\ policies'[rres'.chunks[i].policy_id].status = "active"

\* C11: every chunk returned by retrieve_relevant_chunks with active_only=True
\* belongs to a Document whose status is active when the result is returned,
\* also when a delete of that Document interleaves with the retrieval at its
\* external calls.
ActiveSourcesOnly == [][ReturnsActiveOnly]_vars


----------------------------------------------------------------------------
(* Properties of calculate_confidence, checked under SpecConfidence *)

\* C12: calculate_confidence of the empty chunk set is "none".
EmptySetIsNone ==
    (conf.called /\ conf.chunks = <<>>) => conf.out = "none"

\* the sum of the first n scores
RECURSIVE ScoreSum(_, _)
ScoreSum(cs, n) == IF n = 0 THEN 0 ELSE cs[n].relevance_score + ScoreSum(cs, n - 1)

TierHigh(cs) ==
    /\ \E i \in 1..Len(cs) : cs[i].relevance_score > 85
    /\ ScoreSum(cs, Len(cs)) > 75 * Len(cs)

TierMedium(cs) ==
    /\ \E i \in 1..Len(cs) : cs[i].relevance_score > 70
    /\ ScoreSum(cs, Len(cs)) > 65 * Len(cs)

OneScore(a) == <<[relevance_score |-> a]>>

\* C13: for a non-empty chunk set (scores in hundredths) the confidence is
\* high exactly when the maximum is above 0.85 and the mean above 0.75,
\* otherwise medium exactly when the maximum is above 0.70 and the mean above
\* 0.65, otherwise low, all four comparisons strict; [0.9] is high,
\* [0.72, 0.68] medium and [0.5] low.
TwoThresholdTiers ==
    (conf.called /\ conf.chunks # <<>>) =>
        /\ conf.out = "high" <=> TierHigh(conf.chunks)
        /\ conf.out = "medium" <=> (~TierHigh(conf.chunks) /\ TierMedium(conf.chunks))
        /\ conf.out = "low" <=> (~TierHigh(conf.chunks) /\ ~TierMedium(conf.chunks))
        /\ conf.chunks = OneScore(90) => conf.out = "high"
        /\ conf.chunks = OneScore(72) \o OneScore(68) => conf.out = "medium"
        /\ conf.chunks = OneScore(50) => conf.out = "low"

\* one score above 0.85 with a mean of at most 0.75 was graded medium
TwoThresholdTiersWitness ==
    /\ conf.called
    /\ \E i \in 1..Len(conf.chunks) : conf.chunks[i].relevance_score > 85
    /\ ScoreSum(conf.chunks, Len(conf.chunks)) <= 75 * Len(conf.chunks)
    /\ conf.out = "medium"

----------------------------------------------------------------------------
(* Properties of the chat flow, checked under SpecChat *)

\* a call of answer_question has ended
Answered == chat.started /\ ~chat.stream /\ cpc = "idle"

\* a call of answer_question_stream has run to completion
Streamed == chat.started /\ chat.stream /\ cpc = "idle"

\* the retrieval of the call returned zero chunks
RetrievedNothing == rpc = "idle" /\ rres.outcome = "ok" /\ rres.chunks = <<>>

\* C14: when retrieval returns zero chunks, answer_question returns exactly
\* the escalation message with no sources, confidence none and
\* chunks_retrieved 0, answer_question_stream yields that message, and the
\* generation capability is called in neither path.
EscalatesOnNothing ==
    (chat.started /\ cpc # "c_retrieve" /\ RetrievedNothing) =>
        /\ chat.generationCalls = 0
        /\ cpc \in {"idle", "c_log"}
        /\ Answered =>
              /\ cres.outcome = "returned"
              /\ cres.result =
                    [answer |-> "I cannot find this in our current policies. Please escalate to your manager or on-call coordinator for guidance.",
                     sources |-> <<>>, confidence |-> "none", chunks_retrieved |-> 0]
        /\ Streamed =>
              /\ Len(yielded) >= 1
              /\ yielded[1].kind = "text"
              /\ yielded[1].text =
                    "I cannot find this in our current policies. Please escalate to your manager or on-call coordinator for guidance."
              /\ \A i \in 2..Len(yielded) : yielded[i].kind # "text"

\* the similarity search ran and nothing passed; answer_question returned
EscalatesOnNothingWitness ==
    /\ Answered
    /\ RetrievedNothing
    /\ rq.searchCalls = 1
    /\ cres.outcome = "returned"

\* C15: whenever the provider call of the generation step raises during
\* answer_question, the result carries the fixed fallback message and
\* confidence error.
GenerationFailureIsError ==
    (Answered /\ chat.generation = "provider_error") =>
        /\ cres.outcome = "returned"
        /\ cres.result.answer =
              "I encountered an error processing your question. Please contact your manager or on-call coordinator for assistance."
        /\ cres.result.confidence = "error"

\* retrieval or answering failed during the call
CallFailed ==
    \/ rres.outcome = "error"
    \/ chat.generation \in {"no_client", "provider_error"}

\* C16: answer_question never raises, whatever succeeds or fails among
\* embedding, active-document lookup, search, generation and audit logging:
\* it returns a result with answer, sources, confidence and chunks_retrieved,
\* and when retrieval or answering failed the answer is one of the two fixed
\* safe messages.
NeverRaises ==
    Answered =>
        /\ cres.outcome = "returned"
        /\ cres.result.answer # ""
        /\ cres.result.confidence \in {"high", "medium", "low", "none", "error"}
        /\ cres.result.chunks_retrieved = Len(cres.result.sources)
        /\ CallFailed =>
              cres.result.answer \in
                  {"I cannot find this in our current policies. Please escalate to your manager or on-call coordinator for guidance.",
                   "I encountered an error processing your question. Please contact your manager or on-call coordinator for assistance."}

\* retrieval failed, the audit sink failed too, and the call returned
NeverRaisesWitness ==
    /\ Answered
    /\ rres.outcome = "error"
    /\ chat.logCalls = 1
    /\ ~chat.logOk
    /\ cres.outcome = "returned"

\* C17: in every run of answer_question_stream that runs to completion the
\* last fragment is the "__SOURCES__:" sidecar with sources and confidence,
\* and no answer-text fragment follows it.
SidecarLast ==
    Streamed =>
        /\ yielded # <<>>
        /\ yielded[Len(yielded)].kind = "sidecar"
        /\ yielded[Len(yielded)].text = "__SOURCES__:"
        /\ \A i \in 1..(Len(yielded) - 1) : yielded[i].kind = "text"

\* C18: if the audit sink fails while the query is logged, answer_question
\* still returns the answer, sources, confidence and chunks_retrieved it
\* returns when logging succeeds.
AuditFailureHarmless ==
    (Answered /\ chat.logCalls >= 1 /\ ~chat.logOk) =>
        /\ cres.outcome = "returned"
        /\ cres.result = chat.built

\* a generated answer was returned although the audit sink failed
AuditFailureHarmlessWitness ==
    /\ Answered
    /\ chat.logCalls = 1
    /\ ~chat.logOk
    /\ cres.outcome = "returned"
    /\ cres.result.answer = "generated answer"
    /\ cres.result.chunks_retrieved >= 1

\* C19: with audit logging enabled and the sink working, every call of
\* answer_question or answer_question_stream, whatever its outcome and
\* whatever user_id and user_role it was given, writes one QueryLog entry.
EveryQueryLogged ==
    (chat.started /\ cpc = "idle" /\ chat.audit /\ chat.logOk) =>
        /\ Len(auditLog) = chat.logsBefore + 1
        /\ auditLog[Len(auditLog)].question = chat.q

----------------------------------------------------------------------------
(* Properties of generate_embeddings_batch, checked under SpecEmbed *)

\* the provider answered every request with one vector per input, in order
ProviderAnswered ==
    /\ eb.failedAt # "no_client"
    /\ \A k \in 1..Len(eb.responses) :
          /\ eb.responses[k].kind = "embeddings"
          /\ Len(eb.responses[k].embeddings) = Len(eb.requests[k])
          /\ \A j \in 1..Len(eb.requests[k]) :
                eb.responses[k].embeddings[j] = eb.requests[k][j] + 10

\* C20: for every texts and every batch_size >= 1, when the provider returns
\* one vector per input in input order, generate_embeddings_batch returns
\* len(texts) vectors, vector i being the embedding of texts[i].
BatchOrderPreserved ==
    (eb.outcome \in {"ok", "error"} /\ ProviderAnswered) =>
        /\ eb.outcome = "ok"
        /\ Len(eb.all_embeddings) = Len(eb.texts)
        /\ \A i \in 1..Len(eb.texts) : eb.all_embeddings[i] = eb.texts[i] + 10

\* a batch of the call was answered with a number of vectors other than
\* the number of texts requested in it
MismatchedBatch ==
    \E k \in 1..Len(eb.responses) :
        /\ eb.responses[k].kind = "embeddings"
        /\ Len(eb.responses[k].embeddings) # Len(eb.requests[k])

----------------------------------------------------------------------------
(* Properties of chunk_text and detect_sections, checked under SpecChunk *)

\* length of the stripped text of section s
SectionLength(s) ==
    LET span == SectionSpan(ct.text, ct.sections[s])
    IN IF span.end <= span.start THEN 0 ELSE span.end - span.start

\* the for loop has left section s
SectionLeft(s) == ct.pc = "done" \/ s < ct.section

\* the chunks emitted for section s
ChunksOfSection(s) == {k \in 1..Len(ct.chunks) : ct.chunks[k].section = s}

\* C22: the chunk_index values of the emitted chunks, in emitted order, are
\* exactly 0, 1, ..., n-1: the counter is not reset between sections, and
\* skipped empty sections and dropped fragments leave no gap.
ContiguousIndex ==
    \A k \in 1..Len(ct.chunks) : ct.chunks[k].chunk_index = k - 1

\* consecutive chunks of two sections with an empty section between them,
\* after a dropped fragment
ContiguousIndexWitness ==
    /\ ct.pc = "done"
    /\ Len(ct.chunks) >= 2
    /\ ct.chunks[1].section = 1
    /\ ct.chunks[2].section = 3
    /\ SectionLength(2) = 0
    /\ \E w \in 1..Len(ct.windows) : ct.windows[w].section = 1 /\ ~ct.windows[w].emitted

\* C23: no emitted chunk has fewer than 100 characters: a window whose
\* stripped text is shorter is not emitted and ends its section, a section
\* whose stripped text is shorter than 100 characters yields no chunk, and
\* an empty section is skipped.
MinChunkLength ==
    /\ \A k \in 1..Len(ct.chunks) : ct.chunks[k].end - ct.chunks[k].start >= 100
    /\ \A w \in 1..(Len(ct.windows) - 1) :
          ~ct.windows[w].emitted => ct.windows[w + 1].section > ct.windows[w].section
    /\ \A s \in 1..Len(ct.sections) :
          /\ (SectionLeft(s) /\ SectionLength(s) < 100) => ChunksOfSection(s) = {}
          /\ SectionLength(s) = 0 =>
                \A w \in 1..Len(ct.windows) : ct.windows[w].section # s

\* a section of 1..99 characters was processed and gave no chunk
MinChunkLengthWitness ==
    /\ ct.pc = "done"
    /\ \E s \in 1..Len(ct.sections) :
          /\ SectionLength(s) \in 1..99
          /\ ChunksOfSection(s) = {}
          /\ \E w \in 1..Len(ct.windows) : ct.windows[w].section = s /\ ~ct.windows[w].emitted

\* the text is as clean_text leaves it: stripped, no run of two spaces, no
\* run of three newlines
IsClean(t) ==
    /\ t # <<>> => (~IsSpace(t[1]) /\ ~IsSpace(t[Len(t)]))
    /\ \A i \in 1..(Len(t) - 1) : ~(t[i] = " " /\ t[i + 1] = " ")
    /\ \A i \in 1..(Len(t) - 2) : ~(t[i] = "\n" /\ t[i + 1] = "\n" /\ t[i + 2] = "\n")

\* offset i lies inside an emitted chunk
InChunk(i) ==
    \E k \in 1..Len(ct.chunks) : ct.chunks[k].start <= i /\ i < ct.chunks[k].end

\* offset i lies in a dropped fragment: a window that was not emitted and
\* reaches the end of its section's stripped text
InDroppedFragment(i) ==
    \E w \in 1..Len(ct.windows) :
        /\ ~ct.windows[w].emitted
        /\ ct.windows[w].chunk_end = SectionLength(ct.windows[w].section)
        /\ ct.windows[w].from <= i
        /\ i < ct.windows[w].from - ct.windows[w].position + ct.windows[w].chunk_end

\* C24: for a cleaned text chunked with the sections detect_sections
\* returns for it (the whole-text section when no heading matches), every
\* non-whitespace character lies inside an emitted chunk, except the
\* characters of a dropped trailing fragment at the end of a section.
CoversText ==
    (ct.pc = "done" /\ ct.mode = "detected" /\ IsClean(ct.text)) =>
        \A i \in 0..(Len(ct.text) - 1) :
            ~IsSpace(ct.text[i + 1]) => (InChunk(i) \/ InDroppedFragment(i))

WindowGridNoGap ==
    \A w \in 1..(Len(ct.windows) - 1) :
        ct.windows[w + 1].section = ct.windows[w].section =>
            /\ ct.windows[w].emitted
            /\ ct.windows[w + 1].position - ct.windows[w].position
                  = ct.chunk_size - ct.overlap
            /\ ct.windows[w + 1].position <= ct.windows[w].stripped_end

\* C26, amended: within one section the start offsets of consecutive
\* windows differ by exactly chunk_size - overlap, whether or not the
\* previous chunk was extended, so each next window starts at or before
\* the end of the previous window as cut, before its text is stripped;
\* between the end of the emitted chunk and the next window's start lie
\* only whitespace characters.
WindowGrid ==
    \A w \in 1..(Len(ct.windows) - 1) :
        ct.windows[w + 1].section = ct.windows[w].section =>
            /\ ct.windows[w].emitted
            /\ ct.windows[w + 1].position - ct.windows[w].position
                  = ct.chunk_size - ct.overlap
            /\ ct.windows[w + 1].position <= ct.windows[w].chunk_end
            /\ \A i \in ct.windows[w].stripped_end..(ct.windows[w + 1].position - 1) :
                  IsSpace(ct.text[ct.windows[w + 1].from - ct.windows[w + 1].position + i + 1])

\* the window after a chunk that was extended to a sentence boundary
WindowGridWitness ==
    \E w \in 1..(Len(ct.windows) - 1) :
        /\ ct.windows[w + 1].section = ct.windows[w].section
        /\ ct.windows[w].chunk_end > ct.windows[w].position + ct.chunk_size
        /\ ct.windows[w].stripped_end < ct.windows[w].chunk_end

\* ceil(a / b)
CeilDiv(a, b) == (a + b - 1) \div b

\* the cursor increases from window to window and no section yields more
\* than ceil(L / (chunk_size - overlap)) chunks
BoundedWindows ==
    /\ \A w \in 1..(Len(ct.windows) - 1) :
          ct.windows[w + 1].section = ct.windows[w].section =>
              ct.windows[w + 1].position > ct.windows[w].position
    /\ \A s \in 1..Len(ct.sections) :
          Cardinality(ChunksOfSection(s))
              <= CeilDiv(SectionLength(s), ct.chunk_size - ct.overlap)

\* C30: chunk_text terminates for every text and section list when
\* 0 <= overlap < chunk_size: the cursor strictly increases in each section
\* and a section of stripped length L yields at most
\* ceil(L / (chunk_size - overlap)) chunks.
Terminates == <>(ct.pc = "done" /\ BoundedWindows)

\* a section that gave as many chunks as the bound allows, more than one
TerminatesWitness ==
    /\ ct.pc = "done"
    /\ \E s \in 1..Len(ct.sections) :
          /\ Cardinality(ChunksOfSection(s)) >= 2
          /\ Cardinality(ChunksOfSection(s))
                = CeilDiv(SectionLength(s), ct.chunk_size - ct.overlap)

----------------------------------------------------------------------------
(* Properties across the stores, of the search and of the singletons *)

\* every active Document of ps has the vector of each of its Chunk rows
VectorsPresent(ps, cs, vs) ==
    \A id \in DOMAIN ps :
        ps[id].status = "active" =>
            \A c \in cs : c.policy_id = id => \E v \in vs : v.id = c.embedding_id

\* C27: after every ingest, re-version or delete call, failed ones
\* included, every Document whose committed status is active still has the
\* vector of each of its Chunk rows in the vector store.
ActiveKeepVectors ==
    (pc = "idle" /\ VectorsPresent(pre.policies, pre.chunks, pre.vectors))
        => VectorsPresent(policies, chunks, vectors)

\* the active-id query reads the ids of the Documents active at that moment
ReadsActiveIds ==
    (rpc = "r_ids" /\ ~rq.idsRead /\ rq'.idsRead)
        => rq'.policy_ids = [given |-> TRUE, ids |-> ActivePolicyIds(policies)]

\* a search issued with active_only=True carries a non-empty id list
SearchRestricted ==
    (rq.active_only /\ rq.searchCalls >= 1) =>
        /\ rq.idsRead
        /\ rq.policy_ids.given
        /\ rq.policy_ids.ids # {}
        /\ QueryFilter(rq.policy_ids) = [any |-> TRUE, ids |-> rq.policy_ids.ids]

\* C28: retrieve_relevant_chunks with active_only=True never invokes
\* search_similar without a policy-id restriction: search_similar treats an
\* empty id list like a missing one, and every search issued with
\* active_only=True is given a non-empty list of ids of Documents that were
\* active when the list was read.
NeverUnrestricted ==
    /\ [](QueryFilter([given |-> TRUE, ids |-> {}]) = QueryFilter(NoPolicyIds))
    /\ [](SearchRestricted)
    /\ [][ReadsActiveIds]_vars

\* a restricted search ran while a Document that is not active had vectors
NeverUnrestrictedWitness ==
    /\ rq.active_only
    /\ rq.searchCalls = 1
    /\ rq.policy_ids.ids # {}
    /\ \E id \in DOMAIN policies :
          /\ policies[id].status # "active"
          /\ \E v \in vectors : v.policy_id = id

\* C29: every call of get_qdrant_service or get_gemini_service that
\* returns gives a service whose client is initialized, also when two
\* first calls interleave and after an earlier initialize raised.
GettersGiveClient ==
    \A c \in Callers : gs.call[c].outcome = "returned" => gs.call[c].client
====
